---- MODULE Spec2Model ----
(***************************************************************************)
(* Model of pydantic_agent.py: a LangGraph conversation loop (nodes "llm"  *)
(* and "tool", router should_continue) around one mock tool,               *)
(* get_current_weather.  Python strings are modelled as sequences of       *)
(* one-character strings so that lower() and the substring test `in` are   *)
(* computed, not assumed.                                                  *)
(***************************************************************************)
EXTENDS Integers, Sequences, FiniteSets, TLC

VARIABLES
    messages,    \* state["messages"]: the AgentState channel (line 24)
    pc,          \* position of the graph run: "llm", "should_continue", "tool", "END", "raised"
    inputs,      \* content of the HumanMessage the run was started with (lines 174-190)
    policy,      \* tool_choice of the most recent model call; "none" before the first
    llm_calls,   \* number of call_llm steps of this run
    tool_steps,  \* number of completed call_tool steps of this run
    next_id,     \* next fresh tool-call id handed out by the model endpoint
    error,       \* exception that ended the run; "none" while it runs
    produced,    \* every message the nodes have produced in this run, in order
    llm_history, \* the messages handed to the most recent dynamic_llm.invoke (line 83)
    run,         \* index of the canned conversation of the entry script; 0 for a direct app.stream call
    t_location,  \* argument of a direct get_current_weather call
    t_date,      \* argument of a direct get_current_weather call
    t_out        \* its result; <<>> before the call, <<result>> after

loopvars == <<messages, pc, inputs, policy, llm_calls, tool_steps, next_id, error, produced,
              llm_history, run>>

toolvars == <<t_location, t_date, t_out>>

vars == <<messages, pc, inputs, policy, llm_calls, tool_steps, next_id, error, produced,
          llm_history, run, t_location, t_date, t_out>>

----------------------------------------------------------------------------
(* Bounds *)

\* A run makes at most this many model calls.
MaxLlmCalls == 2

\* A model response carries at most this many tool-call requests.
MaxToolCalls == 2

----------------------------------------------------------------------------
(* String literals of the source *)

\* "weather": keyword of get_llm_for_input (line 129)
KW_WEATHER ==
    <<"w","e","a","t","h","e","r">>

\* "temperature": keyword of get_llm_for_input (line 129)
KW_TEMPERATURE ==
    <<"t","e","m","p","e","r","a","t","u","r","e">>

\* "san francisco": line 45
CITY_SF ==
    <<"s","a","n"," ","f","r","a","n","c","i","s","c","o">>

\* "new york": line 50
CITY_NY ==
    <<"n","e","w"," ","y","o","r","k">>

\* "mason, ohio": line 55
CITY_MASON ==
    <<"m","a","s","o","n",","," ","o","h","i","o">>

\* "2025-06-19": datetime(2025, 6, 19).strftime("%Y-%m-%d"), line 41
current_date ==
    <<"2","0","2","5","-","0","6","-","1","9">>

\* "The weather in ": lines 47, 52, 57
TXT_WEATHER_IN ==
    <<"T","h","e"," ","w","e","a","t","h","e","r"," ","i","n"," ">>

\* " today (": lines 47, 52, 57
TXT_TODAY_OPEN ==
    <<" ","t","o","d","a","y"," ","(">>

\* ") is sunny with a temperature of 70deg F.": line 47
TXT_SF_TODAY ==
    <<")"," ","i","s"," ","s","u","n","n","y"," ","w","i","t","h"," ","a"," ","t","e","m","p","e","r","a","t","u","r","e"," ","o","f"," ","7","0","°","F",".">>

\* ") is cloudy with a temperature of 65deg F with a chance of rain.": line 52
TXT_NY_TODAY ==
    <<")"," ","i","s"," ","c","l","o","u","d","y"," ","w","i","t","h"," ","a"," ","t","e","m","p","e","r","a","t","u","r","e"," ","o","f"," ","6","5","°","F"," ","w","i","t","h"," ","a"," ","c","h","a","n","c","e"," ","o","f"," ","r","a","i","n",".">>

\* ") is 75deg F and partly cloudy.": line 57
TXT_MASON_TODAY ==
    <<")"," ","i","s"," ","7","5","°","F"," ","a","n","d"," ","p","a","r","t","l","y"," ","c","l","o","u","d","y",".">>

\* "I don't have historical/future weather data for ": lines 49, 54
TXT_NO_DATA_FOR ==
    <<"I"," ","d","o","n","'","t"," ","h","a","v","e"," ","h","i","s","t","o","r","i","c","a","l","/","f","u","t","u","r","e"," ","w","e","a","t","h","e","r"," ","d","a","t","a"," ","f","o","r"," ">>

\* " on ": lines 49, 54
TXT_ON ==
    <<" ","o","n"," ">>

\* ". But San Francisco is generally mild.": line 49
TXT_SF_OTHER ==
    <<"."," ","B","u","t"," ","S","a","n"," ","F","r","a","n","c","i","s","c","o"," ","i","s"," ","g","e","n","e","r","a","l","l","y"," ","m","i","l","d",".">>

\* ". New York can be unpredictable.": line 54
TXT_NY_OTHER ==
    <<"."," ","N","e","w"," ","Y","o","r","k"," ","c","a","n"," ","b","e"," ","u","n","p","r","e","d","i","c","t","a","b","l","e",".">>

\* "I don't have historical/future weather data for Mason, Ohio on ": line 59
TXT_MASON_NO_DATA ==
    <<"I"," ","d","o","n","'","t"," ","h","a","v","e"," ","h","i","s","t","o","r","i","c","a","l","/","f","u","t","u","r","e"," ","w","e","a","t","h","e","r"," ","d","a","t","a"," ","f","o","r"," ","M","a","s","o","n",","," ","O","h","i","o"," ","o","n"," ">>

\* ".": lines 59, 61
TXT_DOT ==
    <<".">>

\* "Sorry, I don't have weather information for ": line 61
TXT_SORRY ==
    <<"S","o","r","r","y",","," ","I"," ","d","o","n","'","t"," ","h","a","v","e"," ","w","e","a","t","h","e","r"," ","i","n","f","o","r","m","a","t","i","o","n"," ","f","o","r"," ">>

\* "What's the weather in San Francisco today (2025-06-19)?": inputs_sf, line 174
INPUT_SF ==
    <<"W","h","a","t","'","s"," ","t","h","e"," ","w","e","a","t","h","e","r"," ","i","n"," ","S","a","n"," ","F","r","a","n","c","i","s","c","o"," ","t","o","d","a","y"," ","(","2","0","2","5","-","0","6","-","1","9",")","?">>

\* "What is the current weather in New York on 2025-06-20 using your weather tool?": inputs_ny, line 180
INPUT_NY ==
    <<"W","h","a","t"," ","i","s"," ","t","h","e"," ","c","u","r","r","e","n","t"," ","w","e","a","t","h","e","r"," ","i","n"," ","N","e","w"," ","Y","o","r","k"," ","o","n"," ","2","0","2","5","-","0","6","-","2","0"," ","u","s","i","n","g"," ","y","o","u","r"," ","w","e","a","t","h","e","r"," ","t","o","o","l","?">>

\* "What's the weather like in Mason, Ohio today (2025-06-19)?": inputs_mason, line 185
INPUT_MASON ==
    <<"W","h","a","t","'","s"," ","t","h","e"," ","w","e","a","t","h","e","r"," ","l","i","k","e"," ","i","n"," ","M","a","s","o","n",","," ","O","h","i","o"," ","t","o","d","a","y"," ","(","2","0","2","5","-","0","6","-","1","9",")","?">>

\* "Tell me a fun fact about giraffes.": inputs_general, line 190
INPUT_GENERAL ==
    <<"T","e","l","l"," ","m","e"," ","a"," ","f","u","n"," ","f","a","c","t"," ","a","b","o","u","t"," ","g","i","r","a","f","f","e","s",".">>

----------------------------------------------------------------------------
(* Inputs *)

\* "What is the TEMPERATURE in Paris?": a request that names the second keyword, in capitals
INPUT_TEMPERATURE ==
    <<"W","h","a","t"," ","i","s"," ","t","h","e"," ","T","E","M","P","E","R","A","T","U","R","E"," ","i","n"," ","P","a","r","i","s","?">>

\* "Weather in New York, please": a request that names the first keyword, capitalised
INPUT_CAPITALS ==
    <<"W","e","a","t","h","e","r"," ","i","n"," ","N","e","w"," ","Y","o","r","k",","," ","p","l","e","a","s","e">>

\* The HumanMessage contents a run can be started with: the four of the entry
\* script and two more that exercise the keyword test.
UserInputs ==
    {INPUT_SF, INPUT_NY, INPUT_MASON, INPUT_GENERAL, INPUT_TEMPERATURE, INPUT_CAPITALS}

\* The entry script's conversations, in the order it runs them (lines 173-192).
Canned ==
    <<INPUT_SF, INPUT_NY, INPUT_MASON, INPUT_GENERAL>>

\* "San Francisco, CA": the location of the first canned conversation's expected tool call
LOC_SF_CA ==
    <<"S","a","n"," ","F","r","a","n","c","i","s","c","o",","," ","C","A">>

\* "Paris": a location with no registered city
LOC_PARIS ==
    <<"P","a","r","i","s">>

\* "2025-06-20": TOMORROW_DATE_STR, line 171
DATE_TOMORROW ==
    <<"2","0","2","5","-","0","6","-","2","0">>

\* "Giraffes have blue tongues.": a direct answer of the model
ANSWER_TEXT ==
    <<"G","i","r","a","f","f","e","s"," ","h","a","v","e"," ","b","l","u","e"," ","t","o","n","g","u","e","s",".">>

\* Locations a direct get_current_weather call is tried on.
ToolLocations ==
    { <<"S","a","n"," ","F","r","a","n","c","i","s","c","o",","," ","C","A">>,
      <<"s","a","n"," ","f","r","a","n","c","i","s","c","o">>,
      <<"S","A","N"," ","F","R","A","N","C","I","S","C","O">>,
      <<"S","a","n"," "," ","F","r","a","n","c","i","s","c","o">>,
      <<"N","e","w"," ","Y","o","r","k">>,
      <<"n","e","w"," ","y","o","r","k"," ","c","i","t","y">>,
      <<"N","E","W"," ","Y","O","R","K",","," ","N","Y">>,
      <<"N","e","w","y","o","r","k">>,
      <<"M","a","s","o","n",","," ","O","h","i","o">>,
      <<"M","A","S","O","N",","," ","O","H","I","O">>,
      <<"M","a","s","o","n">>,
      <<"M","a","s","o","n",",","O","h","i","o">>,
      <<"P","a","r","i","s">>,
      <<>>,
      <<"N","e","w"," ","Y","o","r","k"," ","t","o"," ","S","a","n"," ","F","r","a","n","c","i","s","c","o">>,
      <<"M","a","s","o","n",","," ","O","h","i","o"," ","o","r"," ","N","e","w"," ","Y","o","r","k">> }

\* Dates a direct get_current_weather call is tried on.
ToolDates ==
    { <<"2","0","2","5","-","0","6","-","1","9">>,
      <<"2","0","2","5","-","0","6","-","2","0">>,
      <<"2","0","2","5","-","6","-","1","9">>,
      <<>>,
      <<"t","o","d","a","y">>,
      <<"2","0","2","5","-","0","6","-","1","9"," ">> }

----------------------------------------------------------------------------
(* Python string operations *)

UPPER ==
    <<"A","B","C","D","E","F","G","H","I","J","K","L","M",
      "N","O","P","Q","R","S","T","U","V","W","X","Y","Z">>

LOWER ==
    <<"a","b","c","d","e","f","g","h","i","j","k","l","m",
      "n","o","p","q","r","s","t","u","v","w","x","y","z">>

\* str.lower() on one character: A-Z map to a-z, every other character of the
\* model's alphabet is left as it is.
LowerChar(c) ==
    IF \E i \in 1..Len(UPPER) : UPPER[i] = c
    THEN LOWER[CHOOSE i \in 1..Len(UPPER) : UPPER[i] = c]
    ELSE c

\* str.lower()
lower(s) ==
    [i \in 1..Len(s) |-> LowerChar(s[i])]

\* Python's `sub in s` on strings: sub occurs in s as a contiguous run.
In(sub, s) ==
    \E i \in 0..(Len(s) - Len(sub)) : SubSeq(s, i + 1, i + Len(sub)) = sub

----------------------------------------------------------------------------
(* The tool (lines 32-61) *)

\* get_current_weather with the case folding left out: the city names are
\* searched in the location as given.
get_current_weather_case_sensitive(location, date) ==
    IF In(CITY_SF, location) THEN
        IF date = current_date
        THEN TXT_WEATHER_IN \o location \o TXT_TODAY_OPEN \o date \o TXT_SF_TODAY
        ELSE TXT_NO_DATA_FOR \o location \o TXT_ON \o date \o TXT_SF_OTHER
    ELSE IF In(CITY_NY, location) THEN
        IF date = current_date
        THEN TXT_WEATHER_IN \o location \o TXT_TODAY_OPEN \o date \o TXT_NY_TODAY
        ELSE TXT_NO_DATA_FOR \o location \o TXT_ON \o date \o TXT_NY_OTHER
    ELSE IF In(CITY_MASON, location) THEN
        IF date = current_date
        THEN TXT_WEATHER_IN \o location \o TXT_TODAY_OPEN \o date \o TXT_MASON_TODAY
        ELSE TXT_MASON_NO_DATA \o date \o TXT_DOT
    ELSE TXT_SORRY \o location \o TXT_DOT

\* get_current_weather with the last city matched on its town name alone.
get_current_weather_short_city(location, date) ==
    IF In(CITY_SF, lower(location)) THEN
        IF date = current_date
        THEN TXT_WEATHER_IN \o location \o TXT_TODAY_OPEN \o date \o TXT_SF_TODAY
        ELSE TXT_NO_DATA_FOR \o location \o TXT_ON \o date \o TXT_SF_OTHER
    ELSE IF In(CITY_NY, lower(location)) THEN
        IF date = current_date
        THEN TXT_WEATHER_IN \o location \o TXT_TODAY_OPEN \o date \o TXT_NY_TODAY
        ELSE TXT_NO_DATA_FOR \o location \o TXT_ON \o date \o TXT_NY_OTHER
    ELSE IF In(SubSeq(CITY_MASON, 1, 5), lower(location)) THEN
        IF date = current_date
        THEN TXT_WEATHER_IN \o location \o TXT_TODAY_OPEN \o date \o TXT_MASON_TODAY
        ELSE TXT_MASON_NO_DATA \o date \o TXT_DOT
    ELSE TXT_SORRY \o location \o TXT_DOT

\* get_current_weather with the tests for the first two cities exchanged.
get_current_weather_ny_first(location, date) ==
    IF In(CITY_NY, lower(location)) THEN
        IF date = current_date
        THEN TXT_WEATHER_IN \o location \o TXT_TODAY_OPEN \o date \o TXT_NY_TODAY
        ELSE TXT_NO_DATA_FOR \o location \o TXT_ON \o date \o TXT_NY_OTHER
    ELSE IF In(CITY_SF, lower(location)) THEN
        IF date = current_date
        THEN TXT_WEATHER_IN \o location \o TXT_TODAY_OPEN \o date \o TXT_SF_TODAY
        ELSE TXT_NO_DATA_FOR \o location \o TXT_ON \o date \o TXT_SF_OTHER
    ELSE IF In(CITY_MASON, lower(location)) THEN
        IF date = current_date
        THEN TXT_WEATHER_IN \o location \o TXT_TODAY_OPEN \o date \o TXT_MASON_TODAY
        ELSE TXT_MASON_NO_DATA \o date \o TXT_DOT
    ELSE TXT_SORRY \o location \o TXT_DOT

\* get_current_weather(location, date): the canned sentence, chosen by the
\* first city name found in location.lower() and by date == current_date.
get_current_weather(location, date) ==
    IF In(CITY_SF, lower(location)) THEN
        IF date = current_date
        THEN TXT_WEATHER_IN \o location \o TXT_TODAY_OPEN \o date \o TXT_SF_TODAY
        ELSE TXT_NO_DATA_FOR \o location \o TXT_ON \o date \o TXT_SF_OTHER
    ELSE IF In(CITY_NY, lower(location)) THEN
        IF date = current_date
        THEN TXT_WEATHER_IN \o location \o TXT_TODAY_OPEN \o date \o TXT_NY_TODAY
        ELSE TXT_NO_DATA_FOR \o location \o TXT_ON \o date \o TXT_NY_OTHER
    ELSE IF In(CITY_MASON, lower(location)) THEN
        IF date = current_date
        THEN TXT_WEATHER_IN \o location \o TXT_TODAY_OPEN \o date \o TXT_MASON_TODAY
        ELSE TXT_MASON_NO_DATA \o date \o TXT_DOT
    ELSE TXT_SORRY \o location \o TXT_DOT

\* WeatherInput (lines 27-30): both fields are required.
WeatherInputValid(args) ==
    /\ "location" \in DOMAIN args
    /\ "date" \in DOMAIN args

\* tool_invoke with the two arguments handed over in the wrong order.
tool_invoke_swapped(args) ==
    IF WeatherInputValid(args)
    THEN [raised |-> FALSE, output |-> get_current_weather(args.date, args.location)]
    ELSE [raised |-> TRUE, output |-> <<>>]

\* get_current_weather.invoke(args): the arguments are validated against
\* WeatherInput; a ValidationError is raised when a field is missing.
tool_invoke(args) ==
    IF WeatherInputValid(args)
    THEN [raised |-> FALSE, output |-> get_current_weather(args.location, args.date)]
    ELSE [raised |-> TRUE, output |-> <<>>]

----------------------------------------------------------------------------
(* Messages and the state channel *)

HumanMessage(content) ==
    [type |-> "human", content |-> content]

AIMessage(content, tool_calls) ==
    [type |-> "ai", content |-> content, tool_calls |-> tool_calls]

\* ToolMessage built with an id that is not the request's.
ToolMessage_wrong_id(content, tool_call_id) ==
    [type |-> "tool", content |-> content, tool_call_id |-> tool_call_id + 1]

ToolMessage(content, tool_call_id) ==
    [type |-> "tool", content |-> content, tool_call_id |-> tool_call_id]

\* messages[-1]
LastMessage(msgs) ==
    msgs[Len(msgs)]

\* AgentState declares `messages: List[BaseMessage]` with no reducer: what a
\* node returns under "messages" becomes the new value of the channel.
channel_update(old, returned) ==
    returned

\* Only an AIMessage has a tool_calls attribute.
HasToolCalls(msg) ==
    msg.type = "ai"

\* The attributes of a Python dict.  A tool call is a dict with the keys
\* "name", "args" and "id"; its keys are not attributes.
DictAttributes ==
    {"keys", "values", "items", "get", "pop", "update", "copy", "clear"}

\* tool_call.<attr> on a dict raises AttributeError unless attr is one of
\* the dict's own attributes.
AttributeRaises(attr) ==
    attr \notin DictAttributes

----------------------------------------------------------------------------
(* The model invoker (lines 73-84, 128-132) *)

\* The name the tool is registered under (line 33).
TOOL_NAME == "get_current_weather"

\* A tool name the model may ask for that is not registered.
OTHER_TOOL == "get_stock_price"

\* get_llm_for_input with the case folding left out.
get_llm_for_input_case_sensitive(user_input) ==
    IF In(KW_WEATHER, user_input) \/ In(KW_TEMPERATURE, user_input)
    THEN TOOL_NAME
    ELSE "auto"

\* get_llm_for_input(user_input): the tool_choice the model is bound with.
get_llm_for_input(user_input) ==
    IF In(KW_WEATHER, lower(user_input)) \/ In(KW_TEMPERATURE, lower(user_input))
    THEN TOOL_NAME
    ELSE "auto"

\* user_input_of with the isinstance test left out: the content of the last
\* message, whatever its type.
user_input_any_type(msgs) ==
    LastMessage(msgs).content

\* call_llm, line 76: the content of the last message when it is a
\* HumanMessage, the empty string otherwise.
user_input_of(msgs) ==
    IF LastMessage(msgs).type = "human" THEN LastMessage(msgs).content ELSE <<>>

\* The tool-call requests the remote model may put in a response: the tool
\* with complete arguments, the tool with the date missing, and a tool that
\* is not registered.
RequestChoices ==
    { [name |-> TOOL_NAME, args |-> [location |-> LOC_SF_CA, date |-> current_date]],
      [name |-> TOOL_NAME, args |-> [location |-> LOC_PARIS, date |-> DATE_TOMORROW]],
      [name |-> TOOL_NAME, args |-> [location |-> LOC_SF_CA]],
      [name |-> OTHER_TOOL, args |-> [location |-> LOC_PARIS, date |-> current_date]] }

\* The requests of one response, each with a fresh id.
WithIds(reqs, first_id) ==
    [i \in 1..Len(reqs) |->
        [name |-> reqs[i].name, args |-> reqs[i].args, id |-> first_id + i - 1]]

\* Texts of a direct answer: a fixed text, or the latest tool result repeated.
AnswerTexts(history) ==
    {ANSWER_TEXT} \cup
    (IF LastMessage(history).type = "tool" THEN {LastMessage(history).content} ELSE {})

\* dynamic_llm.invoke(messages): the responses the remote endpoint can give.
\* Bound with tool_choice "auto" it answers directly or requests tools; bound
\* with tool_choice = the tool's name it must request that tool.
ModelResponses(history, tool_choice, first_id) ==
    LET requests == UNION {[1..n -> RequestChoices] : n \in 1..MaxToolCalls}
        allowed  == IF tool_choice = "auto" THEN requests
                    ELSE {r \in requests : \A i \in 1..Len(r) : r[i].name = tool_choice}
    IN  {AIMessage(<<>>, WithIds(r, first_id)) : r \in allowed}
        \cup (IF tool_choice = "auto"
              THEN {AIMessage(t, <<>>) : t \in AnswerTexts(history)}
              ELSE {})

----------------------------------------------------------------------------
(* The tool node (lines 86-109) *)

\* "Error executing tool ": line 105
TXT_ERROR_EXECUTING ==
    <<"E","r","r","o","r"," ","e","x","e","c","u","t","i","n","g"," ","t","o","o","l"," ">>

\* ": ": line 105
TXT_COLON ==
    <<":"," ">>

\* str(e) of the ValidationError that WeatherInput raises, shortened to its headline
TXT_VALIDATION_ERROR ==
    <<"v","a","l","i","d","a","t","i","o","n"," ","e","r","r","o","r"," ","f","o","r"," ","W","e","a","t","h","e","r","I","n","p","u","t">>

\* "Unknown tool: ": line 107
TXT_UNKNOWN_TOOL ==
    <<"U","n","k","n","o","w","n"," ","t","o","o","l",":"," ">>

\* The characters of a tool name, for formatting it into a message.
NameText(name) ==
    IF name = TOOL_NAME
    THEN <<"g","e","t","_","c","u","r","r","e","n","t","_","w","e","a","t","h","e","r">>
    ELSE <<"g","e","t","_","s","t","o","c","k","_","p","r","i","c","e">>

\* The for loop of call_tool from request i on.  A request for the tool is
\* invoked and its output appended.  The except branch and the unknown-tool
\* branch both format tool_call.name, which raises AttributeError on a dict.
RECURSIVE tool_loop(_, _, _)
tool_loop(tool_calls, i, tool_outputs) ==
    IF i > Len(tool_calls)
    THEN [raised |-> FALSE, tool_outputs |-> tool_outputs]
    ELSE LET tool_call == tool_calls[i]
         IN  IF tool_call.name = TOOL_NAME
             THEN LET r == tool_invoke(tool_call.args)
                  IN  IF ~r.raised
                      THEN tool_loop(tool_calls, i + 1,
                                     Append(tool_outputs, ToolMessage(r.output, tool_call.id)))
                      ELSE IF AttributeRaises("name")
                           THEN [raised |-> TRUE, tool_outputs |-> tool_outputs]
                           ELSE tool_loop(tool_calls, i + 1,
                                          Append(tool_outputs,
                                                 ToolMessage(TXT_ERROR_EXECUTING \o NameText(tool_call.name)
                                                                 \o TXT_COLON \o TXT_VALIDATION_ERROR,
                                                             tool_call.id)))
             ELSE IF AttributeRaises("name")
                  THEN [raised |-> TRUE, tool_outputs |-> tool_outputs]
                  ELSE tool_loop(tool_calls, i + 1,
                                 Append(tool_outputs,
                                        ToolMessage(TXT_UNKNOWN_TOOL \o NameText(tool_call.name),
                                                    tool_call.id)))

----------------------------------------------------------------------------
(* The router (lines 113-125) and the graph's edges (lines 135-148) *)

\* should_continue that never ends the loop.
should_continue_always_continue(msgs) ==
    "continue"

\* should_continue with its test inverted.
should_continue_inverted(msgs) ==
    IF Len(LastMessage(msgs).tool_calls) > 0 THEN "end" ELSE "continue"

\* should_continue(state)
should_continue(msgs) ==
    IF Len(LastMessage(msgs).tool_calls) > 0 THEN "continue" ELSE "end"

\* The edge map with its two targets exchanged.
ConditionalEdge_swapped(decision) ==
    IF decision = "continue" THEN "END" ELSE "tool"

\* add_conditional_edges("llm", should_continue, {"continue": "tool", "end": END})
ConditionalEdge(decision) ==
    IF decision = "continue" THEN "tool" ELSE "END"

----------------------------------------------------------------------------
(* Initial states *)

\* app.stream({"messages": [HumanMessage(content=...)]}) for one user input.
Init ==
    /\ inputs \in UserInputs
    /\ messages = <<HumanMessage(inputs)>>
    /\ pc = "llm"
    /\ policy = "none"
    /\ llm_calls = 0
    /\ tool_steps = 0
    /\ next_id = 1
    /\ error = "none"
    /\ produced = <<>>
    /\ llm_history = <<>>
    /\ run = 0
    /\ t_location = <<>>
    /\ t_date = <<>>
    /\ t_out = <<>>

\* The entry script: its first canned conversation is started.
InitMain ==
    /\ inputs = Canned[1]
    /\ messages = <<HumanMessage(inputs)>>
    /\ pc = "llm"
    /\ policy = "none"
    /\ llm_calls = 0
    /\ tool_steps = 0
    /\ next_id = 1
    /\ error = "none"
    /\ produced = <<>>
    /\ llm_history = <<>>
    /\ run = 1
    /\ t_location = <<>>
    /\ t_date = <<>>
    /\ t_out = <<>>

\* A direct call of the tool function, no graph run.
InitTool ==
    /\ inputs = <<>>
    /\ messages = <<>>
    /\ pc = "idle"
    /\ policy = "none"
    /\ llm_calls = 0
    /\ tool_steps = 0
    /\ next_id = 1
    /\ error = "none"
    /\ produced = <<>>
    /\ llm_history = <<>>
    /\ run = 0
    /\ t_location \in ToolLocations
    /\ t_date \in ToolDates
    /\ t_out = <<>>

----------------------------------------------------------------------------
(* Actions *)

\* The node "llm": call_llm returns {"messages": [response]}.
CallLlm ==
    /\ pc = "llm"
    /\ llm_calls < MaxLlmCalls
    /\ LET dynamic_llm == get_llm_for_input(user_input_of(messages))
       IN  /\ policy' = dynamic_llm
           /\ \E response \in ModelResponses(messages, dynamic_llm, next_id) :
                /\ messages' = channel_update(messages, <<response>>)
                /\ produced' = Append(produced, response)
                /\ next_id' = next_id + Len(response.tool_calls)
    /\ llm_history' = messages
    /\ llm_calls' = llm_calls + 1
    /\ pc' = "should_continue"
    /\ UNCHANGED <<inputs, tool_steps, error, run>>
    /\ UNCHANGED toolvars

\* CallLlmRaises with the exception swallowed and the node left to run again.
CallLlmRaises_retry ==
    /\ pc = "llm"
    /\ llm_calls < MaxLlmCalls
    /\ policy' = get_llm_for_input(user_input_of(messages))
    /\ llm_calls' = llm_calls + 1
    /\ pc' = "llm"
    /\ error' = "TransportError"
    /\ llm_history' = messages
    /\ UNCHANGED <<messages, inputs, tool_steps, next_id, produced, run>>
    /\ UNCHANGED toolvars

\* The node "llm" when dynamic_llm.invoke raises: nothing catches it, the
\* exception leaves app.stream and ends the script.
CallLlmRaises ==
    /\ pc = "llm"
    /\ llm_calls < MaxLlmCalls
    /\ policy' = get_llm_for_input(user_input_of(messages))
    /\ llm_calls' = llm_calls + 1
    /\ pc' = "raised"
    /\ error' = "TransportError"
    /\ llm_history' = messages
    /\ UNCHANGED <<messages, inputs, tool_steps, next_id, produced, run>>
    /\ UNCHANGED toolvars

\* The conditional edge after "llm": should_continue picks the next node.
Route ==
    /\ pc = "should_continue"
    /\ IF HasToolCalls(LastMessage(messages))
       THEN /\ pc' = ConditionalEdge(should_continue(messages))
            /\ UNCHANGED error
       ELSE /\ pc' = "raised"
            /\ error' = "AttributeError"
    /\ UNCHANGED <<messages, inputs, policy, llm_calls, tool_steps, next_id, produced,
                   llm_history, run>>
    /\ UNCHANGED toolvars

\* CallTool with the edge out of "tool" leading to the router instead of "llm".
CallTool_to_router ==
    /\ pc = "tool"
    /\ IF ~HasToolCalls(LastMessage(messages))
       THEN /\ pc' = "raised"
            /\ error' = "AttributeError"
            /\ UNCHANGED <<messages, tool_steps, produced>>
       ELSE LET r == tool_loop(LastMessage(messages).tool_calls, 1, <<>>)
            IN  IF r.raised
                THEN /\ pc' = "raised"
                     /\ error' = "AttributeError"
                     /\ UNCHANGED <<messages, tool_steps, produced>>
                ELSE /\ messages' = channel_update(messages, messages \o r.tool_outputs)
                     /\ produced' = produced \o r.tool_outputs
                     /\ tool_steps' = tool_steps + 1
                     /\ pc' = "should_continue"
                     /\ UNCHANGED error
    /\ UNCHANGED <<inputs, policy, llm_calls, next_id, llm_history, run>>
    /\ UNCHANGED toolvars

\* The node "tool": call_tool returns {"messages": state["messages"] + tool_outputs},
\* then the edge "tool" -> "llm" is taken; an exception of the loop ends the run.
CallTool ==
    /\ pc = "tool"
    /\ IF ~HasToolCalls(LastMessage(messages))
       THEN /\ pc' = "raised"
            /\ error' = "AttributeError"
            /\ UNCHANGED <<messages, tool_steps, produced>>
       ELSE LET r == tool_loop(LastMessage(messages).tool_calls, 1, <<>>)
            IN  IF r.raised
                THEN /\ pc' = "raised"
                     /\ error' = "AttributeError"
                     /\ UNCHANGED <<messages, tool_steps, produced>>
                ELSE /\ messages' = channel_update(messages, messages \o r.tool_outputs)
                     /\ produced' = produced \o r.tool_outputs
                     /\ tool_steps' = tool_steps + 1
                     /\ pc' = "llm"
                     /\ UNCHANGED error
    /\ UNCHANGED <<inputs, policy, llm_calls, next_id, llm_history, run>>
    /\ UNCHANGED toolvars

\* StartNext with the next user message appended to the state the previous
\* conversation left behind.
StartNext_shared_state ==
    /\ pc = "END"
    /\ run >= 1
    /\ run < Len(Canned)
    /\ run' = run + 1
    /\ inputs' = Canned[run + 1]
    /\ messages' = Append(messages, HumanMessage(Canned[run + 1]))
    /\ pc' = "llm"
    /\ policy' = "none"
    /\ llm_calls' = 0
    /\ tool_steps' = 0
    /\ produced' = <<>>
    /\ llm_history' = <<>>
    /\ UNCHANGED <<next_id, error>>
    /\ UNCHANGED toolvars

\* The entry script after a conversation's stream is exhausted: the next
\* canned conversation is started with a state of its own.
StartNext ==
    /\ pc = "END"
    /\ run >= 1
    /\ run < Len(Canned)
    /\ run' = run + 1
    /\ inputs' = Canned[run + 1]
    /\ messages' = <<HumanMessage(Canned[run + 1])>>
    /\ pc' = "llm"
    /\ policy' = "none"
    /\ llm_calls' = 0
    /\ tool_steps' = 0
    /\ produced' = <<>>
    /\ llm_history' = <<>>
    /\ UNCHANGED <<next_id, error>>
    /\ UNCHANGED toolvars

\* A direct call get_current_weather(location, date).
InvokeTool ==
    /\ pc = "idle"
    /\ t_out = <<>>
    /\ t_out' = <<get_current_weather(t_location, t_date)>>
    /\ UNCHANGED <<t_location, t_date>>
    /\ UNCHANGED loopvars

Next ==
    \/ CallLlm
    \/ CallLlmRaises
    \/ Route
    \/ CallTool

NextMain ==
    \/ CallLlm
    \/ CallLlmRaises
    \/ Route
    \/ CallTool
    \/ StartNext

NextTool ==
    InvokeTool

\* One graph run on any user input.
Spec == Init /\ [][Next]_vars

\* The entry script: the canned conversations one after the other.
SpecMain == InitMain /\ [][NextMain]_vars

\* The tool function on its own.
SpecTool == InitTool /\ [][NextTool]_vars

TypeOK ==
    /\ pc \in {"llm", "should_continue", "tool", "END", "raised", "idle"}
    /\ policy \in {"none", "auto", TOOL_NAME}
    /\ error \in {"none", "TransportError", "AttributeError"}
    /\ llm_calls \in 0..MaxLlmCalls
    /\ Len(messages) >= 1

----------------------------------------------------------------------------
(* Properties of the conversation loop *)

IsPrefix(s, t) ==
    /\ Len(s) <= Len(t)
    /\ SubSeq(t, 1, Len(s)) = s

\* A step of the node "llm", whether the remote call answered or failed.
LlmAttempt ==
    pc = "llm" /\ llm_calls' = llm_calls + 1

\* C1: every step of the loop leaves the history it found as a prefix of the
\* history it leaves behind.
C1_AppendOnly ==
    [][IsPrefix(messages, messages')]_vars

\* C2: at DONE the history is the seed user message followed by every message
\* the nodes produced, in order, and it ends with the model's final answer.
C2_DoneHoldsFullHistory ==
    pc = "END" =>
        /\ messages = <<HumanMessage(inputs)>> \o produced
        /\ LastMessage(messages).type = "ai"
        /\ LastMessage(messages).tool_calls = <<>>

\* C3: from a model response with no tool calls the router answers "end" and
\* the only step there is goes to DONE, calling neither node.
C3_EmptyToolCallsEnd ==
    [][(/\ pc = "should_continue"
        /\ LastMessage(messages).type = "ai"
        /\ LastMessage(messages).tool_calls = <<>>)
       => /\ should_continue(messages) = "end"
          /\ pc' = "END"
          /\ llm_calls' = llm_calls
          /\ tool_steps' = tool_steps
          /\ messages' = messages]_vars

\* C3 happens: DONE is reached on an answer without tool calls after a tool round.
C3_Witness ==
    /\ pc = "END"
    /\ tool_steps >= 1
    /\ Len(messages) = 1
    /\ LastMessage(messages).tool_calls = <<>>

\* C4: from a model response with tool calls the router answers "continue"
\* and the only step there is goes to the tool node, never to DONE.
C4_ToolCallsContinue ==
    [][(/\ pc = "should_continue"
        /\ LastMessage(messages).type = "ai"
        /\ Len(LastMessage(messages).tool_calls) >= 1)
       => /\ should_continue(messages) = "continue"
          /\ pc' = "tool"
          /\ llm_calls' = llm_calls
          /\ messages' = messages]_vars

\* C4 happens: the tool node is entered on a response with two requests.
C4_Witness ==
    /\ pc = "tool"
    /\ LastMessage(messages).type = "ai"
    /\ Len(LastMessage(messages).tool_calls) = 2

\* The requests of the response the tool node is about to serve.
PendingCalls ==
    LastMessage(messages).tool_calls

\* Some message of msgs is the tool result for request id whose content contains text.
HasResult(msgs, id, text) ==
    \E j \in 1..Len(msgs) :
        /\ msgs[j].type = "tool"
        /\ msgs[j].tool_call_id = id
        /\ In(text, msgs[j].content)

\* C5: a tool round with a request for another tool than get_current_weather
\* does not raise: it appends an "Unknown tool" result with the request's id
\* and goes on to the next model call.
C5_UnknownToolNeverRaises ==
    [][(/\ pc = "tool"
        /\ Len(PendingCalls) >= 1
        /\ \A i \in 1..Len(PendingCalls) : PendingCalls[i].name # TOOL_NAME)
       => /\ pc' = "llm"
          /\ error' = "none"
          /\ \A i \in 1..Len(PendingCalls) :
                HasResult(messages', PendingCalls[i].id, TXT_UNKNOWN_TOOL)]_vars

\* C6: a tool round whose get_current_weather requests fail validation does
\* not end the loop: it appends a result with the error text and the
\* request's id and goes on to the next model call.
C6_ToolFailureSurfaced ==
    [][(/\ pc = "tool"
        /\ Len(PendingCalls) >= 1
        /\ \A i \in 1..Len(PendingCalls) :
              /\ PendingCalls[i].name = TOOL_NAME
              /\ ~WeatherInputValid(PendingCalls[i].args))
       => /\ pc' = "llm"
          /\ error' = "none"
          /\ \A i \in 1..Len(PendingCalls) :
                HasResult(messages', PendingCalls[i].id, TXT_VALIDATION_ERROR)]_vars

\* The keyword rule, as stated: the text, in lower case, contains "weather"
\* or "temperature".
HasKeyword(text) ==
    \E kw \in {KW_WEATHER, KW_TEMPERATURE} :
        \E i \in 1..Len(text) : \E j \in i..Len(text) :
            SubSeq(lower(text), i, j) = kw

ExpectedPolicy(text) ==
    IF HasKeyword(text) THEN TOOL_NAME ELSE "auto"

\* C7 as stated: every model call, also a follow-up after a tool round,
\* takes its policy from the conversation's user message.
C7_PolicyFromUserMessage ==
    [][LlmAttempt => policy' = ExpectedPolicy(inputs)]_vars

\* C7, amended: the first model call takes its policy from the seed user
\* message (FORCE on a keyword, AUTO otherwise); every follow-up model call,
\* whose last message is a tool result, is made under AUTO.
C7_PolicyFromLastMessage ==
    [][LlmAttempt =>
          policy' = IF llm_calls = 0 THEN ExpectedPolicy(inputs) ELSE "auto"]_vars

\* C7 happens: a follow-up model call was made under AUTO in a conversation
\* whose user message names a keyword in capitals.
C7_Witness ==
    /\ llm_calls = 2
    /\ tool_steps = 1
    /\ policy = "auto"
    /\ inputs = INPUT_TEMPERATURE

\* C8: the step on which the remote call fails appends nothing, and no step
\* follows it: no retry, no tool round, no model call, no DONE.
C8_TransportErrorFatal ==
    [][/\ error # "TransportError"
       /\ (error' = "TransportError") =>
              (/\ pc' = "raised"
               /\ messages' = messages
               /\ produced' = produced
               /\ tool_steps' = tool_steps)]_vars

\* C8 happens: the remote call failed on the follow-up call after a tool round.
C8_Witness ==
    /\ error = "TransportError"
    /\ pc = "raised"
    /\ tool_steps = 1
    /\ Len(messages) >= 2

----------------------------------------------------------------------------
(* Properties of the tool *)

\* The registered cities in the order the tool tries them, each with the
\* tail of its "today" sentence.
Cities ==
    << [name |-> CITY_SF, today |-> TXT_SF_TODAY],
       [name |-> CITY_NY, today |-> TXT_NY_TODAY],
       [name |-> CITY_MASON, today |-> TXT_MASON_TODAY] >>

\* Registered city k occurs in the location, whatever the case.
Names(k, location) ==
    In(Cities[k].name, lower(location))

\* City k's "today" sentence.
TodaySentence(k, location, date) ==
    TXT_WEATHER_IN \o location \o TXT_TODAY_OPEN \o date \o Cities[k].today

\* City k's "no historical/future data" sentence.
NoDataSentence(k, location, date) ==
    CASE k = 1 -> TXT_NO_DATA_FOR \o location \o TXT_ON \o date \o TXT_SF_OTHER
      [] k = 2 -> TXT_NO_DATA_FOR \o location \o TXT_ON \o date \o TXT_NY_OTHER
      [] k = 3 -> TXT_MASON_NO_DATA \o date \o TXT_DOT

\* The sentence the claims expect for city k.
CitySentence(k, location, date) ==
    IF date = current_date
    THEN TodaySentence(k, location, date)
    ELSE NoDataSentence(k, location, date)

\* C9 as stated: for every registered city the location names, the result is
\* that city's sentence for the date.
C9_EveryNamedCity ==
    t_out # <<>> =>
        \A k \in 1..Len(Cities) :
            Names(k, t_location) => t_out[1] = CitySentence(k, t_location, t_date)

\* C9, amended: when the location names a registered city, the result is the
\* sentence, for the date, of the first city it names in the order San
\* Francisco, New York, Mason, Ohio.
C9_FirstNamedCity ==
    t_out # <<>> =>
        \A k \in 1..Len(Cities) :
            (Names(k, t_location) /\ \A h \in 1..(k - 1) : ~Names(h, t_location))
                => t_out[1] = CitySentence(k, t_location, t_date)

\* C9 happens: the tool has answered for a location in capitals that names
\* one registered city, on the registered date.
C9_Witness ==
    /\ t_out # <<>>
    /\ Names(2, t_location)
    /\ ~Names(1, t_location)
    /\ t_location # lower(t_location)
    /\ t_date = current_date
    /\ t_out[1] = TodaySentence(2, t_location, t_date)

\* C10: for a location that names no registered city the result is the
\* fallback sentence built from the location as given, on every date.
C10_Fallback ==
    t_out # <<>> =>
        ((\A k \in 1..Len(Cities) : ~Names(k, t_location))
            => t_out[1] = TXT_SORRY \o t_location \o TXT_DOT)

\* C10 happens: the tool has answered for a location that names no
\* registered city, on the registered date.
C10_Witness ==
    /\ t_out # <<>>
    /\ \A k \in 1..Len(Cities) : ~Names(k, t_location)
    /\ t_location # lower(t_location)
    /\ t_date = current_date
    /\ t_out[1] = TXT_SORRY \o t_location \o TXT_DOT

----------------------------------------------------------------------------
(* Properties of whole conversations *)

\* The conversation's user message names the keyword "weather".
WeatherSeed ==
    In(KW_WEATHER, lower(inputs))

\* C11 as stated: a conversation seeded with a "weather" message ends at DONE
\* with the text of a tool result as its final answer.
C11_FinalAnswerIsToolOutput ==
    (pc = "END" /\ WeatherSeed) =>
        \E j \in 1..Len(produced) :
            /\ produced[j].type = "tool"
            /\ LastMessage(messages).content = produced[j].content

\* C11, amended: in a conversation seeded with a "weather" message the first
\* model call is made under FORCE; a tool round that completes appends, for
\* each request, the tool's output for that request's arguments; and at DONE
\* the final answer is the text of the last model response, whatever it says.
C11_ForcedToolRound ==
    [][WeatherSeed =>
         /\ (LlmAttempt /\ llm_calls = 0) => policy' = TOOL_NAME
         /\ (pc = "tool" /\ pc' = "llm") =>
               \A i \in 1..Len(PendingCalls) :
                  messages'[Len(messages) + i] =
                     [type |-> "tool",
                      content |-> get_current_weather(PendingCalls[i].args.location,
                                                      PendingCalls[i].args.date),
                      tool_call_id |-> PendingCalls[i].id]
         /\ (pc' = "END") =>
               /\ LastMessage(messages') = produced'[Len(produced')]
               /\ LastMessage(messages').type = "ai"
               /\ LastMessage(messages').tool_calls = <<>>]_vars

\* C11 happens: the first canned conversation, one tool call for San
\* Francisco today, and a final answer that repeats the tool's output.
C11_Witness ==
    /\ pc = "END"
    /\ inputs = INPUT_SF
    /\ tool_steps = 1
    /\ Len(produced) = 3
    /\ produced[2].type = "tool"
    /\ produced[2].content = get_current_weather(LOC_SF_CA, current_date)
    /\ LastMessage(messages).content = produced[2].content

\* A step of the node "tool" that ran to its end.
ToolStep ==
    pc = "tool" /\ tool_steps' = tool_steps + 1

\* C12: a tool step hands the loop back to the model node, and the history
\* the follow-up model call gets is the history the previous model call got,
\* then that call's response, then the results of the round; it still
\* starts with the seed user message.
C12_FollowUpHistory ==
    [][ToolStep =>
          /\ pc' = "llm"
          /\ messages' = llm_history \o <<LastMessage(messages)>>
                            \o SubSeq(messages', Len(messages) + 1, Len(messages'))
          /\ messages'[1] = HumanMessage(inputs)]_vars

\* C13: the tool step on a response with n requests appends exactly n tool
\* results, the i-th of them answering the i-th request.
C13_OneResultPerRequest ==
    [][pc = "tool" =>
          /\ Len(messages') = Len(messages) + Len(PendingCalls)
          /\ \A i \in 1..Len(PendingCalls) :
                /\ messages'[Len(messages) + i].type = "tool"
                /\ messages'[Len(messages) + i].tool_call_id = PendingCalls[i].id]_vars

\* C14: every tool result in the history carries the id of a request of a
\* model message that stands earlier in the same history.
C14_ResultsAnswerEarlierRequests ==
    \A j \in 1..Len(messages) :
        messages[j].type = "tool" =>
            \E i \in 1..(j - 1) :
                /\ messages[i].type = "ai"
                /\ \E k \in 1..Len(messages[i].tool_calls) :
                      messages[i].tool_calls[k].id = messages[j].tool_call_id

\* C14 happens: the history holds a response with two requests and both results.
C14_Witness ==
    /\ pc = "llm"
    /\ tool_steps = 1
    /\ Len(messages) = 3
    /\ messages[2].type = "tool"
    /\ messages[3].type = "tool"
    /\ messages[2].tool_call_id # messages[3].tool_call_id

----------------------------------------------------------------------------
(* Properties of the entry script *)

\* The state of the running conversation is made of its own user message and
\* of messages its own nodes produced, and before its first model call it is
\* exactly its own user message.
OwnMessages ==
    /\ run \in 1..Len(Canned)
    /\ inputs = Canned[run]
    /\ (llm_calls = 0 => messages = <<HumanMessage(Canned[run])>>)
    /\ \A j \in 1..Len(messages) :
          \/ messages[j] = HumanMessage(Canned[run])
          \/ \E k \in 1..Len(produced) : produced[k] = messages[j]

\* C15: the script's conversations run one after the other, the next one
\* starting only when the previous one is at END, and each has a state of
\* its own that starts as its single user message.
C15_OwnStatePerConversation ==
    [][/\ OwnMessages
       /\ OwnMessages'
       /\ (run' # run) =>
             (/\ pc = "END"
              /\ run' = run + 1
              /\ pc' = "llm"
              /\ messages' = <<HumanMessage(Canned[run'])>>
              /\ produced' = <<>>)]_vars

\* C15 happens: the fourth conversation has ended after the first three each
\* went through a tool round.
C15_Witness ==
    /\ run = Len(Canned)
    /\ pc = "END"
    /\ inputs = INPUT_GENERAL
    /\ messages = <<AIMessage(ANSWER_TEXT, <<>>)>>
    /\ next_id > Len(Canned) - 1

----------------------------------------------------------------------------
(* Properties of the nodes' reads and of the order of steps *)

\* C16: when the router or the tool node is about to read the last message,
\* it is the response of the model step just made, and for the tool node it
\* carries at least one request.
C16_LastMessageIsResponse ==
    /\ pc \in {"should_continue", "tool"} =>
          /\ llm_calls >= 1
          /\ LastMessage(messages).type = "ai"
          /\ LastMessage(messages) = produced[Len(produced)]
    /\ pc = "tool" =>
          /\ LastMessage(messages).type = "ai"
          /\ Len(LastMessage(messages).tool_calls) >= 1

\* C16 happens: the tool node is entered a second time, on the response of
\* the follow-up model call.
C16_Witness ==
    /\ pc = "tool"
    /\ tool_steps = 1
    /\ llm_calls = 2
    /\ Len(LastMessage(messages).tool_calls) >= 1

\* C17: a model call under FORCE is the first call of its conversation, made
\* on the user message; a model call after a tool step is under AUTO.
C17_OnlyFirstCallForced ==
    [][LlmAttempt =>
          /\ (policy' = TOOL_NAME) =>
                (/\ llm_calls = 0
                 /\ tool_steps = 0
                 /\ LastMessage(messages) = HumanMessage(inputs))
          /\ (tool_steps >= 1) => (policy' = "auto")]_vars

\* C17 happens: a follow-up call under AUTO in a conversation seeded with
\* "weather", on a history whose last message, a tool result, says "weather" too.
C17_Witness ==
    /\ llm_calls = 2
    /\ policy = "auto"
    /\ inputs = INPUT_SF
    /\ LastMessage(llm_history).type = "tool"
    /\ In(KW_WEATHER, lower(LastMessage(llm_history).content))

\* The model calls and the tool steps of a run are in step: as many of each
\* when the model node is next, one model call more once it has answered;
\* and no response before the last one is without tool calls.
Balanced ==
    /\ pc = "llm" => llm_calls = tool_steps
    /\ pc \in {"should_continue", "tool", "END"} => llm_calls = tool_steps + 1
    /\ \A k \in 1..(Len(produced) - 1) :
          produced[k].type = "ai" => produced[k].tool_calls # <<>>
    /\ pc = "END" =>
          /\ error = "none"
          /\ produced[Len(produced)].type = "ai"
          /\ produced[Len(produced)].tool_calls = <<>>

\* C18: model steps and tool steps alternate, DONE is reached with one model
\* call more than tool steps, at the first response without tool calls, and
\* no step leaves DONE.
C18_Alternation ==
    [][/\ Balanced
       /\ Balanced'
       /\ pc # "END"
       /\ (tool_steps' # tool_steps) => (pc = "tool" /\ pc' = "llm")
       /\ (pc' = "tool") => (pc = "should_continue")]_vars

\* C18 happens: DONE after two model calls with one tool step between them.
C18_Witness ==
    /\ pc = "END"
    /\ error = "none"
    /\ llm_calls = 2
    /\ tool_steps = 1
    /\ Len(produced) >= 3

----------------------------------------------------------------------------
(* Priority of the cities *)

\* C19: when the location names more than one registered city, the result
\* is the sentence of the first of them in the order San Francisco, New
\* York, Mason, Ohio, and of no later one.
C19_Priority ==
    t_out # <<>> =>
        \A k \in 1..Len(Cities) : \A h \in (k + 1)..Len(Cities) :
            (/\ Names(k, t_location)
             /\ Names(h, t_location)
             /\ \A g \in 1..(k - 1) : ~Names(g, t_location))
                => /\ t_out[1] = CitySentence(k, t_location, t_date)
                   /\ t_out[1] # CitySentence(h, t_location, t_date)

\* C19 happens: the tool has answered, for a location that names New York
\* first and San Francisco second and a date that is not the registered one,
\* with San Francisco's sentence.
C19_Witness ==
    /\ t_out # <<>>
    /\ Names(1, t_location)
    /\ Names(2, t_location)
    /\ t_date # current_date
    /\ t_out[1] = NoDataSentence(1, t_location, t_date)

====
